---- MODULE Spec2Model ----
(***************************************************************************)
(* A model of the Pomodoro timer engine of fokus-pomodoro                  *)
(* (src/src/components/Timer.ts, class PomodoroTimer) together with the    *)
(* browser resources it creates: the 1 Hz intervals made by                *)
(* window.setInterval, the one-shot setTimeout callbacks that run          *)
(* advanceToNextSession, and the host's deferred start() of                *)
(* FokusApp.handleURLParameters (src/src/main.ts).                         *)
(*                                                                         *)
(* The timer object is a record; every method of the class is an operator  *)
(* from the record before the call to the record after it, so that a       *)
(* method that calls another one (resume -> start, tick -> completeSession,*)
(* advanceToNextSession -> start) is the composition the code performs.    *)
(***************************************************************************)
EXTENDS Integers, Sequences, FiniteSets, TLC

\* ------------------------------------------------------------------ bounds

\* Most windows intervals the timer may have live at once (the code has no limit).
MaxIntervals == 2
\* Most advanceToNextSession callbacks pending at once (the code has no limit).
MaxPending == 2
\* Long-break cycles followed: the model counts completed work sessions up to
\* MaxCycles * sessionsUntilLongBreak + 1 (the code counts without limit).
MaxCycles == 1

\* The most tasks the todo list holds.
MaxTodos == 2

\* The most steps the clock is advanced by.
MaxElapses == 4

\* The most session records the page saves.
MaxRecords == 3

\* --------------------------------------------------------------- constants

\* constants.ts: SESSION_TYPES
WORK == "work"
SHORT_BREAK == "shortBreak"
LONG_BREAK == "longBreak"
SESSION_TYPES == {WORK, SHORT_BREAK, LONG_BREAK}

\* constants.ts: TIMER_STATES
IDLE == "idle"
RUNNING == "running"
PAUSED == "paused"
COMPLETED == "completed"
TIMER_STATES == {IDLE, RUNNING, PAUSED, COMPLETED}

\* constants.ts: DEFAULT_SETTINGS
DEFAULT_SETTINGS ==
  [ workDuration |-> 25, shortBreak |-> 5, longBreak |-> 15,
    sessionsUntilLongBreak |-> 4, autoStartBreaks |-> FALSE,
    soundEnabled |-> TRUE ]

\* Timer.ts: the factor of `getCurrentSessionDuration() * 60`
SecondsPerMinute == 60

\* todoStorage.ts: CACHE_DURATION, 24 hours in milliseconds
CACHE_DURATION == 24 * 60 * 60 * 1000

\* storage.ts: saveSessionRecord keeps the last 100 entries
HistoryLimit == 100

\* Statistics.ts: saveToHistory keeps the entries of the last 30 days
ThirtyDays == 30

\* The milliseconds of one day: a date is the day the clock is in.
MillisecondsPerDay == 24 * 60 * 60 * 1000

\* ------------------------------------------------------------------- state

VARIABLES
  timeRemaining,      \* PomodoroTimer.timeRemaining (seconds)
  sessionType,        \* PomodoroTimer.sessionType
  state,              \* PomodoroTimer.state
  sessionsCompleted,  \* PomodoroTimer.sessionsCompleted
  intervalId,         \* PomodoroTimer.intervalId: "null" or "set" (a handle)
  settings,           \* PomodoroTimer.settings
  liveIntervals,      \* intervals made by window.setInterval and not cleared
  pendingAdvance,     \* setTimeout(advanceToNextSession) callbacks not yet run
  urlStart,           \* main.ts: the deferred start() of ?action=start
  events,             \* the 'timerUpdate' events the last operation dispatched
  workSinceLongBreak, \* observer: work sessions completed since creation or
                      \* since the last time a LONG_BREAK became current
  now,                \* Date.now(), in milliseconds since the first page load
  todos,              \* TodoStorage.todos
  sessionItem,        \* sessionStorage's item 'fokus_todos'
  localItem,          \* localStorage's item 'fokus_todos'
  dailyStats,         \* Statistics.dailyStats
  dailyItem,          \* localStorage's item 'fokus_daily_stats'
  historyItem,        \* localStorage's item 'fokus_session_history': the
                      \* list it parses to, << >> when there is no item
  savedRecords        \* observer: the records saveSessionRecord was handed,
                      \* in the order of the calls

timerVars == << timeRemaining, sessionType, state, sessionsCompleted,
                intervalId, settings, liveIntervals, pendingAdvance, urlStart,
                events, workSinceLongBreak >>

todoVars == << now, todos, sessionItem, localItem >>

hostVars == << dailyStats, dailyItem, historyItem, savedRecords >>

vars == << timerVars, todoVars, hostVars >>

\* The timer object and the browser resources it made, as one record.
Self ==
  [ timeRemaining |-> timeRemaining, sessionType |-> sessionType,
    state |-> state, sessionsCompleted |-> sessionsCompleted,
    intervalId |-> intervalId, settings |-> settings,
    liveIntervals |-> liveIntervals, pendingAdvance |-> pendingAdvance,
    events |-> << >> ]

\* ----------------------------------------------------------------- methods

\* { ...a, ...b }: the fields of b override those of a.
Spread(a, b) ==
  [ k \in DOMAIN a \cup DOMAIN b |-> IF k \in DOMAIN b THEN b[k] ELSE a[k] ]

\* JavaScript's `a % n === 0` for a >= 0: NaN (never 0) when n is 0, and the
\* sign of n does not matter.
RemIsZero(a, n) ==
  IF n = 0 THEN FALSE ELSE a % (IF n < 0 THEN -n ELSE n) = 0

getCurrentSessionDuration(t) ==
  CASE t.sessionType = WORK -> t.settings.workDuration
    [] t.sessionType = SHORT_BREAK -> t.settings.shortBreak
    [] t.sessionType = LONG_BREAK -> t.settings.longBreak
    [] OTHER -> t.settings.workDuration

\* A faulty variant of getNextSessionType: the count is tested as if the
\* session just finished had not been counted yet.
getNextSessionType_offByOne(t) ==
  IF t.sessionType = WORK
  THEN IF RemIsZero(t.sessionsCompleted + 1, t.settings.sessionsUntilLongBreak)
       THEN LONG_BREAK
       ELSE SHORT_BREAK
  ELSE WORK

\* A faulty variant of getNextSessionType: the long-break test is made
\* first, whatever the current session type is.
getNextSessionType_testsCountFirst(t) ==
  IF RemIsZero(t.sessionsCompleted, t.settings.sessionsUntilLongBreak)
  THEN IF t.sessionType = LONG_BREAK THEN WORK ELSE LONG_BREAK
  ELSE IF t.sessionType = WORK THEN SHORT_BREAK ELSE WORK

getNextSessionType(t) ==
  IF t.sessionType = WORK
  THEN IF RemIsZero(t.sessionsCompleted, t.settings.sessionsUntilLongBreak)
       THEN LONG_BREAK
       ELSE SHORT_BREAK
  ELSE WORK

\* A faulty variant of Progress: the share of the session still remaining
\* instead of the share elapsed.
Progress_ofRemaining(t) ==
  LET totalDuration == getCurrentSessionDuration(t) * SecondsPerMinute
  IN  IF totalDuration > 0
      THEN [ num |-> t.timeRemaining * 100, den |-> totalDuration ]
      ELSE [ num |-> 0, den |-> 1 ]

\* progress = ((totalDuration - timeRemaining) / totalDuration) * 100, kept as
\* the exact fraction num / den (den > 0).
Progress(t) ==
  LET totalDuration == getCurrentSessionDuration(t) * SecondsPerMinute
  IN  IF totalDuration > 0
      THEN [ num |-> (totalDuration - t.timeRemaining) * 100, den |-> totalDuration ]
      ELSE [ num |-> 0, den |-> 1 ]

dispatchTimerEvent(t) ==
  [ t EXCEPT !.events = Append(@,
      [ timeRemaining |-> t.timeRemaining, sessionType |-> t.sessionType,
        state |-> t.state, sessionsCompleted |-> t.sessionsCompleted,
        progress |-> Progress(t) ]) ]

clearInterval(t) ==
  IF t.intervalId # "null"
  THEN [ t EXCEPT !.liveIntervals = @ - 1, !.intervalId = "null" ]
  ELSE t

\* A faulty variant of start: an idle timer is armed with the work duration
\* whatever the current session type is.
start_workDurationAlways(t) ==
  LET t1 == IF t.state = IDLE
            THEN [ t EXCEPT !.timeRemaining =
                     t.settings.workDuration * SecondsPerMinute ]
            ELSE t
      t2 == [ t1 EXCEPT !.state = RUNNING,
                        !.liveIntervals = @ + 1,
                        !.intervalId = "set" ]
  IN  dispatchTimerEvent(t2)

\* A faulty variant of start: the countdown is re-armed at the full duration
\* whatever the state, a paused one too.
start_alwaysFull(t) ==
  LET t1 == [ t EXCEPT !.timeRemaining =
                getCurrentSessionDuration(t) * SecondsPerMinute ]
      t2 == [ t1 EXCEPT !.state = RUNNING,
                        !.liveIntervals = @ + 1,
                        !.intervalId = "set" ]
  IN  dispatchTimerEvent(t2)

start(t) ==
  LET t1 == IF t.state = IDLE
            THEN [ t EXCEPT !.timeRemaining =
                     getCurrentSessionDuration(t) * SecondsPerMinute ]
            ELSE t
      t2 == [ t1 EXCEPT !.state = RUNNING,
                        !.liveIntervals = @ + 1,
                        !.intervalId = "set" ]
  IN  dispatchTimerEvent(t2)

\* A faulty variant of pause: the state is not looked at.
pause_unguarded(t) ==
  dispatchTimerEvent(clearInterval([ t EXCEPT !.state = PAUSED ]))

pause(t) ==
  IF t.state = RUNNING
  THEN dispatchTimerEvent(clearInterval([ t EXCEPT !.state = PAUSED ]))
  ELSE t

resume(t) ==
  IF t.state = PAUSED THEN start(t) ELSE t

\* A faulty variant of reset: an idle timer is taken to need no reset, and
\* nothing is dispatched for it.
reset_skipsWhenIdle(t) ==
  IF t.state = IDLE
  THEN t
  ELSE LET t1 == clearInterval([ t EXCEPT !.state = IDLE ])
       IN  dispatchTimerEvent(
             [ t1 EXCEPT !.timeRemaining =
                 getCurrentSessionDuration(t1) * SecondsPerMinute ])

reset(t) ==
  LET t1 == clearInterval([ t EXCEPT !.state = IDLE ])
  IN  dispatchTimerEvent(
        [ t1 EXCEPT !.timeRemaining =
            getCurrentSessionDuration(t1) * SecondsPerMinute ])

\* A faulty variant of completeSession: the advancement is not scheduled.
completeSession_noAdvance(t) ==
  LET t1 == clearInterval([ t EXCEPT !.state = COMPLETED ])
      t2 == IF t1.sessionType = WORK
            THEN [ t1 EXCEPT !.sessionsCompleted = @ + 1 ]
            ELSE t1
  IN  dispatchTimerEvent(t2)

completeSession(t) ==
  LET t1 == clearInterval([ t EXCEPT !.state = COMPLETED ])
      t2 == IF t1.sessionType = WORK
            THEN [ t1 EXCEPT !.sessionsCompleted = @ + 1 ]
            ELSE t1
      t3 == dispatchTimerEvent(t2)
  IN  [ t3 EXCEPT !.pendingAdvance = @ + 1 ]

skip(t) == completeSession(t)

\* A faulty variant of updateSettings: the remaining time is derived before
\* the new settings are merged in.
updateSettings_staleDuration(t, newSettings) ==
  LET t1 == [ t EXCEPT !.settings = Spread(t.settings, newSettings) ]
  IN  IF t1.state = IDLE
      THEN dispatchTimerEvent(
             [ t1 EXCEPT !.timeRemaining =
                 getCurrentSessionDuration(t) * SecondsPerMinute ])
      ELSE t1

updateSettings(t, newSettings) ==
  LET t1 == [ t EXCEPT !.settings = Spread(t.settings, newSettings) ]
  IN  IF t1.state = IDLE
      THEN dispatchTimerEvent(
             [ t1 EXCEPT !.timeRemaining =
                 getCurrentSessionDuration(t1) * SecondsPerMinute ])
      ELSE t1

tick(t) ==
  LET t1 == [ t EXCEPT !.timeRemaining = @ - 1 ]
  IN  IF t1.timeRemaining <= 0
      THEN completeSession(t1)
      ELSE dispatchTimerEvent(t1)

\* A faulty variant of advanceToNextSession: with autoStartBreaks set it
\* starts whatever session comes next, a work session too.
advanceToNextSession_startsWork(t) ==
  LET t1 == [ t EXCEPT !.sessionType = getNextSessionType(t) ]
      t2 == [ t1 EXCEPT !.timeRemaining =
                getCurrentSessionDuration(t1) * SecondsPerMinute,
                        !.state = IDLE ]
  IN  IF t2.settings.autoStartBreaks
      THEN start(t2)
      ELSE dispatchTimerEvent(t2)

advanceToNextSession(t) ==
  LET t1 == [ t EXCEPT !.sessionType = getNextSessionType(t) ]
      t2 == [ t1 EXCEPT !.timeRemaining =
                getCurrentSessionDuration(t1) * SecondsPerMinute,
                        !.state = IDLE ]
  IN  IF t2.settings.autoStartBreaks /\ t2.sessionType # WORK
      THEN start(t2)
      ELSE dispatchTimerEvent(t2)

\* The callback completeSession hands to setTimeout runs.
fireAdvance(t) ==
  advanceToNextSession([ t EXCEPT !.pendingAdvance = @ - 1 ])

\* A faulty variant of the constructor: reset() is left to updateSettings,
\* and is never made for a call without an argument.
constructor_noReset(given, partial) ==
  LET t0 == [ timeRemaining |-> 0, sessionType |-> WORK, state |-> IDLE,
              sessionsCompleted |-> 0, intervalId |-> "null",
              settings |-> DEFAULT_SETTINGS, liveIntervals |-> 0,
              pendingAdvance |-> 0, events |-> << >> ]
  IN  IF given THEN updateSettings(t0, partial) ELSE t0

\* new PomodoroTimer(settings?): the field initialisers, then the constructor.
\* `given` is FALSE for a call without an argument.
constructor(given, partial) ==
  LET t0 == [ timeRemaining |-> 0, sessionType |-> WORK, state |-> IDLE,
              sessionsCompleted |-> 0, intervalId |-> "null",
              settings |-> DEFAULT_SETTINGS, liveIntervals |-> 0,
              pendingAdvance |-> 0, events |-> << >> ]
      t1 == IF given THEN updateSettings(t0, partial) ELSE t0
  IN  reset(t1)

\* ------------------------------------------------------------ todo storage

\* getItem() returning null: no item under the key.
NoItem == [ present |-> FALSE, todos |-> << >>, expiresAt |-> 0 ]

\* The TodoStorage instance and the two storage items, as one record.
TodoSelf ==
  [ todos |-> todos, sessionItem |-> sessionItem, localItem |-> localItem ]

\* saveTodos at time `at`: the same blob goes to both storages.
saveTodos(s, at) ==
  LET data == [ present |-> TRUE, todos |-> s.todos,
                expiresAt |-> at + CACHE_DURATION ]
  IN  [ s EXCEPT !.sessionItem = data, !.localItem = data ]

clearExpiredData(s) ==
  [ s EXCEPT !.todos = << >>, !.localItem = NoItem, !.sessionItem = NoItem ]

loadTodos(s, at) ==
  IF ~s.sessionItem.present
  THEN IF s.localItem.present
       THEN IF at > s.localItem.expiresAt
            THEN clearExpiredData(s)
            ELSE LET s1 == saveTodos([ s EXCEPT !.todos = s.localItem.todos ], at)
                 IN  [ s1 EXCEPT !.localItem = NoItem ]
       ELSE s
  ELSE [ s EXCEPT !.todos = s.sessionItem.todos ]

\* The static cleanup TodoList's constructor runs: storage only.
cleanupExpiredData(s, at) ==
  IF s.localItem.present /\ at > s.localItem.expiresAt
  THEN [ s EXCEPT !.localItem = NoItem, !.sessionItem = NoItem ]
  ELSE s

\* A page load at time `at`: a new TodoStorage (todos = []) loads, then the
\* cleanup runs.  sessionStorage is kept by a reload in the same tab and is
\* empty in a new tab.
pageLoad(s, at, sameTab) ==
  LET s0 == [ todos |-> << >>,
              sessionItem |-> IF sameTab THEN s.sessionItem ELSE NoItem,
              localItem |-> s.localItem ]
  IN  cleanupExpiredData(loadTodos(s0, at), at)

getTodos(s) == s.todos

\* The index of the task with this id, 0 if there is none.
findIndex(s, id) ==
  IF \E i \in 1..Len(s.todos) : s.todos[i].id = id
  THEN CHOOSE i \in 1..Len(s.todos) :
         /\ s.todos[i].id = id
         /\ \A j \in 1..(i - 1) : s.todos[j].id # id
  ELSE 0

\* String.prototype.trim on a text kept as a sequence of characters: the
\* white space before the first and after the last other character goes.
trim(text) ==
  LET inked == { i \in 1..Len(text) : text[i] # " " }
  IN  IF inked = {}
      THEN << >>
      ELSE SubSeq(text,
                  CHOOSE i \in inked : \A j \in inked : i <= j,
                  CHOOSE i \in inked : \A j \in inked : j <= i)

\* What a method returns for a task it does not find.
null == [ null |-> TRUE ]

addTodo(s, at, id, text) ==
  saveTodos([ s EXCEPT !.todos =
                << [ id |-> id, text |-> trim(text), completed |-> FALSE,
                     createdAt |-> at ] >> \o @ ],
            at)

toggleTodo(s, at, id) ==
  LET i == findIndex(s, id)
  IN  IF i # 0
      THEN saveTodos([ s EXCEPT !.todos[i].completed = ~@ ], at)
      ELSE s

\* What toggleTodo returns: the task as toggled, or null.
toggleTodoResult(s, id) ==
  LET i == findIndex(s, id)
  IN  IF i # 0 THEN [ s.todos[i] EXCEPT !.completed = ~@ ] ELSE null

\* A faulty variant of deleteTodo: the task at the head of the list is the
\* one spliced out.
deleteTodo_splicesHead(s, at, id) ==
  LET i == findIndex(s, id)
  IN  IF i # 0
      THEN saveTodos([ s EXCEPT !.todos = SubSeq(@, 2, Len(@)) ], at)
      ELSE s

deleteTodo(s, at, id) ==
  LET i == findIndex(s, id)
  IN  IF i # 0
      THEN saveTodos([ s EXCEPT !.todos =
                         SubSeq(@, 1, i - 1) \o SubSeq(@, i + 1, Len(@)) ], at)
      ELSE s

\* What deleteTodo returns: whether it found the task.
deleteTodoResult(s, id) == findIndex(s, id) # 0

updateTodo(s, at, id, text) ==
  LET i == findIndex(s, id)
  IN  IF i # 0
      THEN saveTodos([ s EXCEPT !.todos[i].text = trim(text) ], at)
      ELSE s

\* What updateTodo returns: the task as updated, or null.
updateTodoResult(s, id, text) ==
  LET i == findIndex(s, id)
  IN  IF i # 0 THEN [ s.todos[i] EXCEPT !.text = trim(text) ] ELSE null

getActiveTodos(s) == SelectSeq(s.todos, LAMBDA todo : ~todo.completed)

getCompletedTodos(s) == SelectSeq(s.todos, LAMBDA todo : todo.completed)

getTodoCount(s) ==
  LET total == Len(s.todos)
      completed == Len(SelectSeq(s.todos, LAMBDA todo : todo.completed))
  IN  [ total |-> total, active |-> total - completed, completed |-> completed ]

\* A faulty variant of clearCompleted: the filter keeps the completed tasks.
clearCompleted_keepsCompleted(s, at) ==
  saveTodos([ s EXCEPT !.todos = SelectSeq(@, LAMBDA todo : todo.completed) ],
            at)

clearCompleted(s, at) ==
  saveTodos([ s EXCEPT !.todos = SelectSeq(@, LAMBDA todo : ~todo.completed) ],
            at)

\* What clearCompleted returns: the number of completed tasks it found.
clearCompletedResult(s) ==
  Len(SelectSeq(s.todos, LAMBDA todo : todo.completed))

\* -------------------------------------------------------------------- host

\* main.ts: the cue played and the session record persisted for one
\* COMPLETED snapshot.  playNotification catches its own failures, so the
\* record follows the cue.
handleSessionCompletion(eventData) ==
  [ cue |-> IF eventData.sessionType = WORK
            THEN "workComplete" ELSE "breakComplete",
    record |-> [ sessionType |-> eventData.sessionType, completed |-> TRUE ] ]

\* main.ts: the 'timerUpdate' listener, run on the events of one operation:
\* what it plays and persists, in order.
bindGlobalEvents(evts) ==
  LET done == SelectSeq(evts, LAMBDA e : e.state = COMPLETED)
  IN  [ i \in 1..Len(done) |-> handleSessionCompletion(done[i]) ]

\* SettingsManager.loadSettings: the settings handed to the timer, from
\* localStorage's item 'fokus_settings': none, one JSON.parse throws on, or
\* one that parses to an object.
loadSettings(saved) ==
  IF saved.kind = "object"
  THEN Spread(DEFAULT_SETTINGS, saved.parsed)
  ELSE DEFAULT_SETTINGS

\* ------------------------------------------------- statistics and history

\* The Statistics instance, the two localStorage items it writes, and the
\* record of what StorageManager was asked to save, as one record.
HostSelf ==
  [ dailyStats |-> dailyStats, dailyItem |-> dailyItem,
    historyItem |-> historyItem, savedRecords |-> savedRecords ]

\* getItem('fokus_daily_stats') returning null.
NoStats == [ present |-> FALSE ]

\* new Date().toISOString().split('T')[0] at time `at`: the date, as the
\* number of the day.
getTodayString(at) == at \div MillisecondsPerDay

\* history.sort by date, the latest first; entries of one date keep their
\* order.
RECURSIVE sortByDateDescending(_)
sortByDateDescending(history) ==
  IF history = << >>
  THEN << >>
  ELSE LET latest == CHOOSE d \in { history[i].date : i \in 1..Len(history) } :
                       \A i \in 1..Len(history) : history[i].date <= d
       IN  SelectSeq(history, LAMBDA entry : entry.date = latest)
             \o sortByDateDescending(
                  SelectSeq(history, LAMBDA entry : entry.date # latest))

\* entry.sessionsCompleted > 0, which is false for an entry without the
\* field (undefined > 0).
hasSessions(entry) ==
  "sessionsCompleted" \in DOMAIN entry /\ entry.sessionsCompleted > 0

\* The loop of calculateStreakFromHistory from the i-th sorted entry on.
RECURSIVE streakFrom(_, _, _, _)
streakFrom(sorted, i, checkDate, streak) ==
  IF i > Len(sorted)
  THEN streak
  ELSE IF sorted[i].date = checkDate /\ hasSessions(sorted[i])
       THEN streakFrom(sorted, i + 1, checkDate - 1, streak + 1)
       ELSE IF sorted[i].date = checkDate
            THEN streak
            ELSE streakFrom(sorted, i + 1, checkDate, streak)

calculateStreakFromHistory(history, at) ==
  IF Len(history) = 0
  THEN 0
  ELSE streakFrom(sortByDateDescending(history), 1, getTodayString(at), 0)

loadStreakFromHistory(h, at) == calculateStreakFromHistory(h.historyItem, at)

calculateCurrentStreak(h, at) ==
  IF h.dailyStats.sessionsCompleted > 0
  THEN loadStreakFromHistory(h, at) + 1
  ELSE loadStreakFromHistory(h, at)

\* The dailyStats the Statistics constructor starts with at time `at`.
loadTodaysStats(h, at) ==
  IF h.dailyItem.present /\ h.dailyItem.stats.date = getTodayString(at)
  THEN h.dailyItem.stats
  ELSE [ date |-> getTodayString(at), sessionsCompleted |-> 0,
         focusTimeMinutes |-> 0, streak |-> loadStreakFromHistory(h, at) ]

\* Statistics.saveToHistory: today's entry is the first one of the same
\* date; entries dated before now - 30 days are dropped.  The comparison
\* new Date(entry.date) >= thirtyDaysAgo is made in whole days, rounding
\* `at` up, to keep the numbers within TLC's integers.
saveToHistory(h, at) ==
  LET history == h.historyItem
      todays == { i \in 1..Len(history) : history[i].date = h.dailyStats.date }
      updated == IF todays # {}
                 THEN [ history EXCEPT
                          ![CHOOSE i \in todays : \A j \in todays : i <= j] =
                            h.dailyStats ]
                 ELSE Append(history, h.dailyStats)
      thirtyDaysAgo == (0 - ((0 - at) \div MillisecondsPerDay)) - ThirtyDays
  IN  [ h EXCEPT !.historyItem =
          SelectSeq(updated, LAMBDA entry : entry.date >= thirtyDaysAgo) ]

saveStats(h, at) ==
  saveToHistory([ h EXCEPT !.dailyItem =
                    [ present |-> TRUE, stats |-> h.dailyStats ] ], at)

recordCompletedSession(h, at, workDuration) ==
  LET today == getTodayString(at)
      h1 == IF h.dailyStats.date # today
            THEN [ h EXCEPT !.dailyStats =
                     [ date |-> today, sessionsCompleted |-> 0,
                       focusTimeMinutes |-> 0,
                       streak |-> loadStreakFromHistory(h, at) ] ]
            ELSE h
      h2 == [ h1 EXCEPT !.dailyStats.sessionsCompleted = @ + 1,
                        !.dailyStats.focusTimeMinutes = @ + workDuration ]
      h3 == [ h2 EXCEPT !.dailyStats.streak = calculateCurrentStreak(h2, at) ]
  IN  saveStats(h3, at)

updateSessionsFromTimer(h, count) ==
  IF h.dailyStats.sessionsCompleted # count
  THEN [ h EXCEPT !.dailyStats.sessionsCompleted = count ]
  ELSE h

\* Statistics.handleTimerUpdate for one snapshot; `current` is what
\* timer.getSettings() returns.
handleTimerUpdate(h, at, eventData, current) ==
  LET h1 == IF eventData.state = COMPLETED /\ eventData.sessionType = WORK
            THEN recordCompletedSession(h, at, current.workDuration)
            ELSE h
  IN  updateSessionsFromTimer(h1, eventData.sessionsCompleted)

loadSessionHistory(h) == h.historyItem

\* existing.slice(-100): the last HistoryLimit entries.
sliceLast(list, n) ==
  IF Len(list) <= n THEN list ELSE SubSeq(list, Len(list) - n + 1, Len(list))

saveSessionRecord(h, session) ==
  LET existing == Append(loadSessionHistory(h), session)
  IN  [ h EXCEPT !.historyItem = sliceLast(existing, HistoryLimit),
                 !.savedRecords = Append(@, session) ]

\* FokusApp.recordSession at time `at`; the id is one no other record has.
recordSession(h, at, type, current) ==
  LET duration == CASE type = WORK -> current.workDuration
                    [] type = SHORT_BREAK -> current.shortBreak
                    [] OTHER -> current.longBreak
  IN  saveSessionRecord(h,
        [ id |-> Len(h.savedRecords) + 1,
          date |-> getTodayString(at),
          sessionType |-> type,
          duration |-> duration,
          completed |-> TRUE,
          startTime |-> at - duration * 60 * 1000,
          endTime |-> at ])

\* The 'timerUpdate' listeners of the page, run in the order they were
\* added on the snapshots of one operation: Statistics' first, FokusApp's
\* after it (its record follows the cue, which never fails).
RECURSIVE timerUpdate(_, _, _, _)
timerUpdate(h, at, evts, current) ==
  IF evts = << >>
  THEN h
  ELSE LET h1 == handleTimerUpdate(h, at, Head(evts), current)
           h2 == IF Head(evts).state = COMPLETED
                 THEN recordSession(h1, at, Head(evts).sessionType, current)
                 ELSE h1
       IN  timerUpdate(h2, at, Tail(evts), current)

\* ------------------------------------------------------------------ inputs

\* Durations (minutes) the settings take in this model.
Durations == {1, 2}

\* The partial settings objects handed to updateSettings: one field each.
Updates ==
  { [ workDuration |-> d ] : d \in Durations }
  \cup { [ autoStartBreaks |-> b ] : b \in BOOLEAN }

\* The settings objects handed to the constructor.
InitialSettings ==
  { [ workDuration |-> 1, shortBreak |-> 1, longBreak |-> 2,
      sessionsUntilLongBreak |-> 2, autoStartBreaks |-> b ] : b \in BOOLEAN }

\* ----------------------------------------------------------------- actions

\* The most completed work sessions the model counts under settings s.
SessionCap(s) ==
  MaxCycles * (IF s.sessionsUntilLongBreak > 1
               THEN s.sessionsUntilLongBreak ELSE 1) + 1

\* The caps that keep the model finite: an operation that would take a
\* counter past its cap is not taken.
Bounded(t) ==
  /\ t.liveIntervals <= MaxIntervals
  /\ t.pendingAdvance <= MaxPending
  /\ \/ t.sessionsCompleted = sessionsCompleted
     \/ t.sessionsCompleted <= SessionCap(t.settings)

\* The timer and its resources become t.
TimerBecomes(t) ==
  /\ Bounded(t)
  /\ timeRemaining' = t.timeRemaining
  /\ sessionType' = t.sessionType
  /\ state' = t.state
  /\ sessionsCompleted' = t.sessionsCompleted
  /\ intervalId' = t.intervalId
  /\ settings' = t.settings
  /\ liveIntervals' = t.liveIntervals
  /\ pendingAdvance' = t.pendingAdvance
  /\ events' = t.events
  /\ workSinceLongBreak' =
       IF t.sessionType = LONG_BREAK /\ sessionType # LONG_BREAK
       THEN 0
       ELSE workSinceLongBreak + (t.sessionsCompleted - sessionsCompleted)

\* The timer on its own, no listener attached: it and its resources become
\* t and nothing else changes.
Becomes(t) == TimerBecomes(t) /\ UNCHANGED << todoVars, hostVars >>

\* The state new PomodoroTimer(partial) leaves (new PomodoroTimer() when
\* `given` is FALSE), with the host's deferred start u.
ConstructedWith(given, partial, u) ==
  LET t == constructor(given, partial)
  IN  /\ timeRemaining = t.timeRemaining
      /\ sessionType = t.sessionType
      /\ state = t.state
      /\ sessionsCompleted = t.sessionsCompleted
      /\ intervalId = t.intervalId
      /\ settings = t.settings
      /\ liveIntervals = t.liveIntervals
      /\ pendingAdvance = t.pendingAdvance
      /\ events = t.events
      /\ workSinceLongBreak = 0
      \* handleURLParameters runs in FokusApp's constructor, while IDLE
      /\ urlStart = u
      \* a first visit: no task and nothing stored
      /\ now = 0
      /\ todos = << >>
      /\ sessionItem = NoItem
      /\ localItem = NoItem
      \* no statistics and no history stored
      /\ dailyItem = NoStats
      /\ historyItem = << >>
      /\ savedRecords = << >>
      /\ dailyStats =
           loadTodaysStats([ dailyItem |-> NoStats, historyItem |-> << >> ], 0)

\* The state new PomodoroTimer(s) leaves, with the host's deferred start u.
Constructed(s, u) == ConstructedWith(TRUE, s, u)

Init ==
  \E s \in InitialSettings, u \in {"none", "pending"} : Constructed(s, u)

Start == Becomes(start(Self)) /\ UNCHANGED urlStart

Pause == Becomes(pause(Self)) /\ UNCHANGED urlStart

Resume == Becomes(resume(Self)) /\ UNCHANGED urlStart

Reset == Becomes(reset(Self)) /\ UNCHANGED urlStart

Skip == Becomes(skip(Self)) /\ UNCHANGED urlStart

UpdateSettings ==
  \E p \in Updates : Becomes(updateSettings(Self, p)) /\ UNCHANGED urlStart

\* One live interval fires: its callback runs tick().  The timer's intervals
\* are made after the host's 1000 ms timeout and have the same delay, so none
\* fires before it.
Tick ==
  /\ liveIntervals > 0
  /\ urlStart = "none"
  /\ Becomes(tick(Self))
  /\ UNCHANGED urlStart

\* One pending setTimeout callback of completeSession fires (like the
\* intervals, not before the host's earlier timeout of the same delay).
Advance ==
  /\ pendingAdvance > 0
  /\ urlStart = "none"
  /\ Becomes(fireAdvance(Self))
  /\ UNCHANGED urlStart

\* main.ts: setTimeout(() => this.timer.start(), 1000) fires.
UrlStart ==
  /\ urlStart = "pending"
  /\ Becomes(start(Self))
  /\ urlStart' = "none"

Next ==
  \/ Start
  \/ Pause
  \/ Resume
  \/ Reset
  \/ Skip
  \/ UpdateSettings
  \/ Tick
  \/ Advance
  \/ UrlStart

Spec == Init /\ [][Next]_vars

\* ------------------------------------------------- the long-break sequence

\* The settings of the sequencing scenario: a long break every 4th session.
SequenceSettings ==
  { [ workDuration |-> 1, shortBreak |-> 1, longBreak |-> 2,
      sessionsUntilLongBreak |-> 4, autoStartBreaks |-> b ] : b \in BOOLEAN }

InitSequence == \E s \in SequenceSettings : Constructed(s, "none")

\* Every operation but a change of settings.
NextSequence ==
  \/ Start
  \/ Pause
  \/ Resume
  \/ Reset
  \/ Skip
  \/ Tick
  \/ Advance

SpecSequence == InitSequence /\ [][NextSequence]_vars

\* ------------------------------------------------ the end-to-end scenario

\* One-minute sessions, a long break every 2nd session, breaks auto-started.
ScenarioSettings ==
  [ workDuration |-> 1, shortBreak |-> 1, longBreak |-> 1,
    sessionsUntilLongBreak |-> 2, autoStartBreaks |-> TRUE ]

InitScenario == Constructed(ScenarioSettings, "none")

\* The scenario's one explicit call: start() on the new timer.
ScenarioStart ==
  /\ state = IDLE
  /\ sessionsCompleted = 0
  /\ Start

\* start() once, then only the clock: interval ticks and deferred advancements.
NextScenario ==
  \/ ScenarioStart
  \/ Tick
  \/ Advance

SpecScenario == InitScenario /\ [][NextScenario]_vars

\* ------------------------------------------------------ unchecked settings

\* Setting values a caller may hand over, valid or not.
AnyDurations == {0, 1}
AnyLongBreakEvery == {-1, 2}

AnyUpdates ==
  { [ workDuration |-> d ] : d \in AnyDurations }
  \cup { [ sessionsUntilLongBreak |-> n ] : n \in AnyLongBreakEvery }

UpdateAnySettings ==
  \E p \in AnyUpdates : Becomes(updateSettings(Self, p)) /\ UNCHANGED urlStart

NextAnySettings ==
  \/ Start
  \/ Reset
  \/ Skip
  \/ Tick
  \/ Advance
  \/ UpdateAnySettings

SpecAnySettings == InitScenario /\ [][NextAnySettings]_vars

\* -------------------------------------------------------- default settings

\* The argument of new PomodoroTimer(settings?) where one is given: an empty
\* object, one field, or two.
Partials ==
  { << >>, [ workDuration |-> 10 ],
    [ shortBreak |-> 3, autoStartBreaks |-> TRUE ] }

InitDefaults ==
  \E given \in BOOLEAN, p \in Partials : ConstructedWith(given, p, "none")

\* The partial settings objects handed to updateSettings on a timer made
\* with the defaults.
DefaultUpdates ==
  { [ workDuration |-> 10 ], [ workDuration |-> 25 ], [ shortBreak |-> 3 ] }

UpdateDefaults ==
  \E p \in DefaultUpdates : Becomes(updateSettings(Self, p)) /\ UNCHANGED urlStart

NextDefaults ==
  \/ Start
  \/ Pause
  \/ Resume
  \/ Reset
  \/ Skip
  \/ Advance
  \/ UpdateDefaults

SpecDefaults == InitDefaults /\ [][NextDefaults]_vars

\* ------------------------------------------------------ deferred callbacks

\* The caps on intervals and pending callbacks are kept by the calls that
\* make them, so that a callback the browser has queued is never held back:
\* an advancement turns one pending callback into at most one interval.
\* Sessions are completed by skip(), which runs the completeSession the last
\* tick of a countdown runs.
HasRoom == liveIntervals' + pendingAdvance' <= MaxIntervals

StartInRoom == Start /\ HasRoom

ResetInRoom == Reset /\ HasRoom

SkipInRoom == Skip /\ HasRoom

InitDeferred == \E s \in InitialSettings : Constructed(s, "none")

NextDeferred ==
  \/ StartInRoom
  \/ ResetInRoom
  \/ SkipInRoom
  \/ Advance

\* A callback handed to setTimeout is run by the browser: the advancement is
\* not put off for ever.
SpecDeferred ==
  InitDeferred /\ [][NextDeferred]_vars /\ WF_vars(Advance)

\* --------------------------------------------------------------- the tasks

\* The clock moves in steps of 12 hours.
ClockStep == 12 * 60 * 60 * 1000

\* The ids generateId hands out: unique among the tasks held.
TodoIds == 1..MaxTodos

\* The todo storage becomes s; the timer is left alone.
TodoBecomes(s) ==
  /\ todos' = s.todos
  /\ sessionItem' = s.sessionItem
  /\ localItem' = s.localItem
  /\ UNCHANGED << now, timerVars, hostVars >>

\* The texts typed in: one as it is kept, one with white space around it.
TodoTexts == { << "a" >>, << " ", "b", " " >> }

AddTodo ==
  /\ Len(todos) < MaxTodos
  /\ \E id \in TodoIds, text \in TodoTexts :
       /\ findIndex(TodoSelf, id) = 0
       /\ TodoBecomes(addTodo(TodoSelf, now, id, text))

ToggleTodo == \E id \in TodoIds : TodoBecomes(toggleTodo(TodoSelf, now, id))

DeleteTodo == \E id \in TodoIds : TodoBecomes(deleteTodo(TodoSelf, now, id))

UpdateTodo ==
  \E id \in TodoIds, text \in TodoTexts :
    TodoBecomes(updateTodo(TodoSelf, now, id, text))

ClearCompleted == TodoBecomes(clearCompleted(TodoSelf, now))

\* Twelve hours pass.
Elapse ==
  /\ now < MaxElapses * ClockStep
  /\ now' = now + ClockStep
  /\ UNCHANGED << todos, sessionItem, localItem, timerVars, hostVars >>

\* The page is loaded again in the same tab.
Reload == TodoBecomes(pageLoad(TodoSelf, now, TRUE))

\* The tab was closed; the page is loaded in a new one.
Reopen == TodoBecomes(pageLoad(TodoSelf, now, FALSE))

InitTodo == ConstructedWith(FALSE, << >>, "none")

NextTodo ==
  \/ AddTodo
  \/ ToggleTodo
  \/ DeleteTodo
  \/ UpdateTodo
  \/ ClearCompleted
  \/ Elapse
  \/ Reload
  \/ Reopen

SpecTodo == InitTodo /\ [][NextTodo]_vars

\* ------------------------------------------------------------- the startup

\* What localStorage may hold under 'fokus_settings' when the page loads.
StoredSettings ==
  { [ kind |-> "none", parsed |-> << >> ],
    [ kind |-> "unparseable", parsed |-> << >> ],
    [ kind |-> "object", parsed |-> [ workDuration |-> 10 ] ],
    [ kind |-> "object", parsed |-> [ workDuration |-> 0 ] ],
    [ kind |-> "object", parsed |-> [ shortBreak |-> -5, autoStartBreaks |-> TRUE ] ] }

\* The page loads: FokusApp makes a new timer, and SettingsManager's
\* constructor hands it the stored settings.
Startup ==
  \E saved \in StoredSettings :
    LET made == [ constructor(FALSE, << >>) EXCEPT !.events = << >> ]
        t == updateSettings(made, loadSettings(saved))
    IN  /\ timeRemaining' = t.timeRemaining
        /\ sessionType' = t.sessionType
        /\ state' = t.state
        /\ sessionsCompleted' = t.sessionsCompleted
        /\ intervalId' = t.intervalId
        /\ settings' = t.settings
        /\ liveIntervals' = t.liveIntervals
        /\ pendingAdvance' = t.pendingAdvance
        /\ events' = t.events
        /\ workSinceLongBreak' = 0
        /\ urlStart' = "none"
        /\ UNCHANGED << todoVars, hostVars >>

InitStartup == ConstructedWith(FALSE, << >>, "none")

NextStartup ==
  \/ Startup
  \/ Start
  \/ Reset
  \/ Skip
  \/ Advance

SpecStartup == InitStartup /\ [][NextStartup]_vars

\* ---------------------------------------------------------------- the page

\* What localStorage holds under 'fokus_settings' when the page loads:
\* nothing, or a work duration kept from an earlier visit.
PageSettings ==
  { [ kind |-> "none", parsed |-> << >> ],
    [ kind |-> "object", parsed |-> [ workDuration |-> 10 ] ] }

\* Statistics and the history become h.
HostBecomes(h) ==
  /\ Len(h.savedRecords) <= MaxRecords
  /\ dailyStats' = h.dailyStats
  /\ dailyItem' = h.dailyItem
  /\ historyItem' = h.historyItem
  /\ savedRecords' = h.savedRecords

\* A call on the page's timer: the timer becomes t and the listeners run on
\* the snapshots it dispatched.
PageBecomes(t) ==
  /\ TimerBecomes(t)
  /\ HostBecomes(timerUpdate(HostSelf, now, t.events, t.settings))
  /\ UNCHANGED << urlStart, todoVars >>

PageStart == PageBecomes(start(Self))

PageSkip == PageBecomes(skip(Self))

PageAdvance ==
  /\ pendingAdvance > 0
  /\ urlStart = "none"
  /\ PageBecomes(fireAdvance(Self))

\* The page is loaded again in the same tab: FokusApp's constructor makes a
\* new timer (its first snapshot has no listener yet), Statistics loads the
\* day's statistics and listens, and SettingsManager hands the timer the
\* stored settings, whose snapshot Statistics hears.
PageLoad ==
  \E saved \in PageSettings :
    LET made == [ constructor(FALSE, << >>) EXCEPT !.events = << >> ]
        loaded == [ HostSelf EXCEPT !.dailyStats = loadTodaysStats(HostSelf, now) ]
        t == updateSettings(made, loadSettings(saved))
        h == IF t.events = << >>
             THEN loaded
             ELSE handleTimerUpdate(loaded, now, t.events[1], t.settings)
        s == pageLoad(TodoSelf, now, TRUE)
    IN  /\ timeRemaining' = t.timeRemaining
        /\ sessionType' = t.sessionType
        /\ state' = t.state
        /\ sessionsCompleted' = t.sessionsCompleted
        /\ intervalId' = t.intervalId
        /\ settings' = t.settings
        /\ liveIntervals' = t.liveIntervals
        /\ pendingAdvance' = t.pendingAdvance
        /\ events' = t.events
        /\ workSinceLongBreak' = 0
        /\ urlStart' = "none"
        /\ HostBecomes(h)
        /\ todos' = s.todos
        /\ sessionItem' = s.sessionItem
        /\ localItem' = s.localItem
        /\ UNCHANGED now

InitPage == ConstructedWith(FALSE, << >>, "none")

\* Sessions are completed by skip(), which runs the completeSession the last
\* tick of a countdown runs; the clock moves by Elapse.
NextPage ==
  \/ PageStart
  \/ PageSkip
  \/ PageAdvance
  \/ PageLoad
  \/ Elapse

SpecPage == InitPage /\ [][NextPage]_vars

\* ------------------------------------------------------------------ claims

\* C1: in every reachable state at most one periodic tick source made by the
\* timer is live (start() while RUNNING, by whatever caller, arms no second
\* one).
C1_AtMostOneInterval == liveIntervals <= 1

\* C2: whenever the state is IDLE, PAUSED or COMPLETED no tick source is
\* armed: none is live and the timer holds no interval handle.
C2_NoIntervalUnlessRunning ==
  state # RUNNING => (liveIntervals = 0 /\ intervalId = "null")

\* C3: a tick delivered while the state is not RUNNING is a no-op:
\* timeRemaining, state, sessionType and sessionsCompleted keep their values
\* and no session is completed (no advancement is scheduled).
C3_StaleTickIsNoOp ==
  [][ (Tick /\ state # RUNNING) =>
        UNCHANGED << timeRemaining, state, sessionType, sessionsCompleted,
                     pendingAdvance >> ]_vars

\* C4: from any COMPLETED state whose deferred advancement has not fired,
\* reset() followed by that advancement leaves the state IDLE and sessionType
\* and timeRemaining as the reset left them.
C4_ResetSupersedesAdvance ==
  (state = COMPLETED /\ pendingAdvance > 0) =>
    LET r == reset(Self)
        a == fireAdvance(r)
    IN  /\ a.state = IDLE
        /\ a.sessionType = r.sessionType
        /\ a.timeRemaining = r.timeRemaining

\* C5: when the automatic advancement runs with a WORK session current, the
\* next sessionType is LONG_BREAK exactly when sessionsCompleted is a multiple
\* of sessionsUntilLongBreak and SHORT_BREAK otherwise; with
\* sessionsUntilLongBreak = 4 the breaks after work sessions 1, 2, 3, 4, 5
\* are SHORT, SHORT, SHORT, LONG, SHORT.
C5_Breaks == << SHORT_BREAK, SHORT_BREAK, SHORT_BREAK, LONG_BREAK, SHORT_BREAK >>

C5_LongBreakEveryNth ==
  [][ (Advance /\ sessionType = WORK) =>
        /\ sessionType' =
             IF sessionsCompleted % settings.sessionsUntilLongBreak = 0
             THEN LONG_BREAK ELSE SHORT_BREAK
        /\ (settings.sessionsUntilLongBreak = 4 /\ sessionsCompleted \in 1..5)
             => sessionType' = C5_Breaks[sessionsCompleted] ]_vars

\* C5 witness: the 4th work session has completed and the advancement has
\* made a LONG_BREAK current.
C5_Witness ==
  /\ settings.sessionsUntilLongBreak = 4
  /\ sessionsCompleted = 4
  /\ sessionType = LONG_BREAK
  /\ workSinceLongBreak = 0

\* C6: with sessionsUntilLongBreak fixed at N, a LONG_BREAK becomes current
\* only when exactly N work sessions have completed since creation or since
\* the previous long break, and a SHORT_BREAK only when fewer than N have.
C6_ExactlyNBetweenLongBreaks ==
  [][ /\ (sessionType' = LONG_BREAK /\ sessionType # LONG_BREAK)
           => workSinceLongBreak = settings.sessionsUntilLongBreak
      /\ (sessionType' = SHORT_BREAK /\ sessionType # SHORT_BREAK)
           => workSinceLongBreak < settings.sessionsUntilLongBreak ]_vars

\* C7: the end-to-end scenario.  With the scenario's settings, start() and 60
\* ticks give COMPLETED, WORK, sessionsCompleted = 1; the advancement gives
\* RUNNING, SHORT_BREAK; 60 more ticks give COMPLETED; the next advancement
\* gives WORK in state `final`.  Each tick takes one second off
\* timeRemaining and completes the session exactly when it takes the last.
C7_Facts(final) ==
  /\ settings.workDuration = 1 /\ settings.shortBreak = 1
  /\ settings.sessionsUntilLongBreak = 2 /\ settings.autoStartBreaks
  /\ sessionType \in {WORK, SHORT_BREAK}
  /\ state = RUNNING => timeRemaining \in 1..60
  /\ state = COMPLETED => (timeRemaining = 0 /\ sessionsCompleted = 1)
  /\ sessionType = SHORT_BREAK =>
       (state \in {RUNNING, COMPLETED} /\ sessionsCompleted = 1)
  /\ (sessionType = WORK /\ sessionsCompleted = 1 /\ state # COMPLETED)
       => state = final

C7_Step(final) ==
  /\ C7_Facts(final)'
  /\ ScenarioStart => (state' = RUNNING /\ timeRemaining' = 60)
  /\ Tick => /\ timeRemaining' = timeRemaining - 1
             /\ state' = IF timeRemaining = 1 THEN COMPLETED ELSE RUNNING
             /\ sessionsCompleted' = sessionsCompleted +
                  (IF timeRemaining = 1 /\ sessionType = WORK THEN 1 ELSE 0)
             /\ sessionType' = sessionType
  /\ Advance =>
       /\ state = COMPLETED
       /\ sessionType = WORK =>
            (sessionType' = SHORT_BREAK /\ state' = RUNNING
               /\ timeRemaining' = 60)
       /\ sessionType = SHORT_BREAK =>
            (sessionType' = WORK /\ state' = final)

\* C7 as stated: the advancement after the break leaves WORK and RUNNING.
C7_ScenarioEndsRunning == [][ C7_Step(RUNNING) ]_vars

\* C7 as amended: the advancement after the break leaves WORK and IDLE.
C7_ScenarioEndsIdle == [][ C7_Step(IDLE) ]_vars

\* C7 witness: the scenario has run to its end, the second advancement done.
C7_Witness ==
  /\ sessionType = WORK
  /\ sessionsCompleted = 1
  /\ state = IDLE
  /\ timeRemaining = 60
  /\ pendingAdvance = 0

\* The snapshot a 'timerUpdate' event carries when dispatched in this state.
C8_SnapshotNow(e) ==
  /\ e.timeRemaining = timeRemaining
  /\ e.sessionType = sessionType
  /\ e.state = state
  /\ e.sessionsCompleted = sessionsCompleted

\* C8: every operation (start, pause, reset, skip, tick, updateSettings, the
\* automatic advancement), in whatever state it is invoked, dispatches exactly
\* one 'timerUpdate' event, carrying the timer's fields as they then are.
C8_ExactlyOneSnapshot ==
  [][ Len(events') = 1 /\ C8_SnapshotNow(events[1])' ]_vars

\* C9: every emitted snapshot has 0 <= progress <= 100.
C9_ProgressInRange ==
  \A i \in 1..Len(events) :
    /\ 0 <= events[i].progress.num
    /\ events[i].progress.num <= 100 * events[i].progress.den

\* C10: the timer never holds an invalid setting: the durations are > 0 and
\* sessionsUntilLongBreak is >= 1, whatever values the caller passed.
C10_SettingsValid ==
  /\ settings.workDuration > 0
  /\ settings.shortBreak > 0
  /\ settings.longBreak > 0
  /\ settings.sessionsUntilLongBreak >= 1

\* C11: sessionsCompleted goes up by exactly 1 on every step in which a WORK
\* session completes (the state becomes COMPLETED with WORK current) and is
\* left unchanged by every other step, so it equals the number of WORK
\* sessions completed since creation.
C11_CountsWorkSessions ==
  [][ sessionsCompleted' = sessionsCompleted +
        (IF sessionType = WORK /\ state # COMPLETED /\ state' = COMPLETED
         THEN 1 ELSE 0) ]_vars

\* C12: start() invoked while COMPLETED is ignored: the state stays
\* COMPLETED, no tick source is armed and timeRemaining is unchanged.
C12_StartIgnoredWhenCompleted ==
  [][ (Start /\ state = COMPLETED) =>
        /\ state' = COMPLETED
        /\ timeRemaining' = timeRemaining
        /\ liveIntervals' = liveIntervals
        /\ intervalId' = intervalId ]_vars

\* The timer as the next call finds it: the events of the call before are
\* not its own.
C13_Then(t) == [ t EXCEPT !.events = << >> ]

\* C13: from any RUNNING state, pause() leaves PAUSED with timeRemaining
\* untouched, and start() or resume() called next returns to RUNNING with
\* exactly the timeRemaining pause() found.
C13_PauseResumeKeepsTime ==
  state = RUNNING =>
    LET p == pause(Self)
        s == start(C13_Then(p))
        r == resume(C13_Then(p))
    IN  /\ p.state = PAUSED /\ p.timeRemaining = timeRemaining
        /\ s.state = RUNNING /\ s.timeRemaining = timeRemaining
        /\ r.state = RUNNING /\ r.timeRemaining = timeRemaining

\* C13 witness: a countdown half way through a one-minute session, where a
\* decrement or a re-arming by the pair would show.
C13_Witness ==
  /\ state = RUNNING
  /\ timeRemaining = 30
  /\ getCurrentSessionDuration(Self) = 1
  /\ resume(C13_Then(pause(Self))).timeRemaining = 30

\* C14: reset() from any state leaves IDLE with the tick source cancelled
\* and timeRemaining = 60 x the duration of the current session type, and
\* leaves sessionType, sessionsCompleted and settings unchanged.
C14_ResetToIdle ==
  [][ Reset =>
        /\ state' = IDLE
        /\ liveIntervals' = 0 /\ intervalId' = "null"
        /\ timeRemaining' = getCurrentSessionDuration(Self) * SecondsPerMinute
        /\ UNCHANGED << sessionType, sessionsCompleted, settings >> ]_vars

\* C15: reset() is idempotent: from any state, a second reset() right after
\* the first dispatches the same one snapshot and leaves the same timer.
C15_ResetIdempotent ==
  LET r1 == reset(Self)
      r2 == reset(C13_Then(r1))
  IN  /\ Len(r1.events) = 1
      /\ r2.events = r1.events
      /\ r2 = r1

\* C15 witness: a paused countdown half way through, where the first reset
\* changes the state and the remaining time.
C15_Witness ==
  /\ state = PAUSED
  /\ timeRemaining = 30
  /\ reset(Self).state = IDLE
  /\ reset(Self).timeRemaining = 60
  /\ reset(C13_Then(reset(Self))).timeRemaining = 60

\* C16: skip() from any state puts the timer in COMPLETED at once, cancels
\* the tick source and schedules the automatic advancement, counting the
\* session as a completion by countdown does.
C16_SkipCompletes ==
  [][ Skip =>
        /\ state' = COMPLETED
        /\ liveIntervals' = 0 /\ intervalId' = "null"
        /\ pendingAdvance' = pendingAdvance + 1
        /\ sessionsCompleted' =
             sessionsCompleted + (IF sessionType = WORK THEN 1 ELSE 0)
        /\ UNCHANGED << sessionType, timeRemaining >> ]_vars

\* C17: a tick while RUNNING with timeRemaining r > 1 leaves RUNNING with
\* r - 1; with r = 1 it sets timeRemaining to 0 and the state to COMPLETED
\* and cancels the tick source.
C17_TickDecrements ==
  [][ (Tick /\ state = RUNNING /\ timeRemaining >= 1) =>
        /\ timeRemaining' = timeRemaining - 1
        /\ timeRemaining > 1 => state' = RUNNING
        /\ timeRemaining = 1 =>
             (state' = COMPLETED /\ liveIntervals' = 0 /\ intervalId' = "null")
      ]_vars

\* C18: when the advancement makes a break current, then with
\* autoStartBreaks the timer is RUNNING with the full break duration and one
\* tick source armed, and without it IDLE with the full break duration.
C18_BreakAutoStart ==
  [][ (Advance /\ sessionType' # WORK) =>
        /\ timeRemaining' = getCurrentSessionDuration(Self') * SecondsPerMinute
        /\ IF settings.autoStartBreaks
           THEN state' = RUNNING /\ liveIntervals' = 1 /\ intervalId' = "set"
           ELSE state' = IDLE ]_vars

\* C19: the advancement into a WORK session leaves IDLE whatever
\* autoStartBreaks is, and the timer becomes RUNNING with WORK current only
\* by a start() or resume() call (the host's deferred start() being one).
C19_WorkNeverAutoStarts ==
  [][ /\ (Advance /\ sessionType' = WORK) => state' = IDLE
      /\ (state' = RUNNING /\ sessionType' = WORK
            /\ ~(state = RUNNING /\ sessionType = WORK))
           => (Start \/ Resume \/ UrlStart) ]_vars

\* C19 witness: breaks are auto-started, a break has been advanced past, and
\* the work session that follows waits in IDLE.
C19_Witness ==
  /\ settings.autoStartBreaks
  /\ sessionType = WORK
  /\ sessionsCompleted = 1
  /\ workSinceLongBreak = 1
  /\ state = IDLE
  /\ pendingAdvance = 0
  /\ Len(events) = 1 /\ events[1].state = IDLE

\* C20: the advancement that runs with a SHORT_BREAK or LONG_BREAK current
\* sets sessionType to WORK, whatever sessionsCompleted and the settings are.
C20_WorkAfterBreak ==
  [][ (Advance /\ sessionType # WORK) => sessionType' = WORK ]_vars

\* C20 witness: a long break has been advanced past with work sessions
\* counted, and WORK is current again.
C20_Witness ==
  /\ sessionType = WORK
  /\ sessionsCompleted >= 1
  /\ workSinceLongBreak = 0
  /\ state = IDLE
  /\ pendingAdvance = 0

\* C21: start() while IDLE (the host's deferred start() included) leaves
\* RUNNING with timeRemaining = 60 x the duration of the current session
\* type under the current settings, and arms one more tick source, which the
\* timer holds.
C21_StartFromIdle ==
  [][ ((Start \/ UrlStart) /\ state = IDLE) =>
        /\ state' = RUNNING
        /\ timeRemaining' = getCurrentSessionDuration(Self) * SecondsPerMinute
        /\ liveIntervals' = liveIntervals + 1
        /\ intervalId' = "set"
        /\ UNCHANGED << sessionType, sessionsCompleted, settings >> ]_vars

\* C21 witness: a short break of 3 minutes started from IDLE, the work
\* duration being another.
C21_Witness ==
  /\ state = RUNNING
  /\ sessionType = SHORT_BREAK
  /\ settings.shortBreak = 3
  /\ settings.workDuration = 25
  /\ timeRemaining = 180
  /\ liveIntervals = 1
  /\ Len(events) = 1 /\ events[1].state = RUNNING
  /\ events[1].timeRemaining = 180

\* C23: updateSettings while RUNNING or PAUSED leaves timeRemaining, state,
\* sessionType and sessionsCompleted unchanged, and the changed duration is
\* not used for the session in flight: the progress of its snapshots is what
\* it was before the change.
C23_RunningSettingsFrame ==
  [][ (UpdateSettings /\ state \in {RUNNING, PAUSED}) =>
        /\ UNCHANGED << timeRemaining, state, sessionType, sessionsCompleted >>
        /\ Progress(Self)' = Progress(Self) ]_vars

\* C24: the snapshot start() dispatches from IDLE has progress 0, and every
\* snapshot has progress 100 exactly when its timeRemaining is 0.
C24_ProgressEnds ==
  /\ \A i \in 1..Len(events) :
        (events[i].progress.num = 100 * events[i].progress.den)
          <=> (events[i].timeRemaining = 0)
  /\ state = IDLE =>
        LET s == start(Self)
        IN  /\ Len(s.events) = 1
            /\ s.events[1].state = RUNNING
            /\ s.events[1].progress.num = 0

\* C24 witness: a countdown has reached 0 and its snapshot says 100.
C24_Witness ==
  /\ state = COMPLETED
  /\ timeRemaining = 0
  /\ Len(events) = 1
  /\ events[1].timeRemaining = 0
  /\ events[1].progress.num = 100 * events[1].progress.den

\* C25: pause() in a state other than RUNNING and resume() in a state other
\* than PAUSED change nothing and dispatch nothing.
C25_InvalidOpsAreNoOps ==
  [][ ((Pause /\ state # RUNNING) \/ (Resume /\ state # PAUSED)) =>
        /\ UNCHANGED << timeRemaining, sessionType, state, sessionsCompleted,
                        intervalId, settings, liveIntervals, pendingAdvance >>
        /\ events' = << >> ]_vars

\* C25 witness: a completed session awaiting its advancement, the last call
\* having dispatched nothing.
C25_Witness ==
  /\ state = COMPLETED
  /\ pendingAdvance = 1
  /\ events = << >>
  /\ pause(Self) = Self
  /\ resume(Self) = Self

\* C22: updateSettings while IDLE sets timeRemaining to 60 x the duration
\* the current session type has under the merged settings and dispatches one
\* snapshot of the timer as it then is; for a WORK session, workDuration
\* changed from 25 to 10 gives timeRemaining 600.
C22_IdleSettingsReload ==
  [][ (UpdateDefaults /\ state = IDLE) =>
        /\ timeRemaining' = getCurrentSessionDuration(Self)' * SecondsPerMinute
        /\ Len(events') = 1
        /\ C8_SnapshotNow(events[1])'
        /\ (sessionType = WORK /\ settings.workDuration = 25
              /\ settings.workDuration' = 10) => timeRemaining' = 600 ]_vars

\* C22 witness: an idle work session whose duration was set to 10 minutes.
C22_Witness ==
  /\ state = IDLE
  /\ sessionType = WORK
  /\ sessionsCompleted = 1
  /\ settings.workDuration = 10
  /\ timeRemaining = 600
  /\ Len(events) = 1 /\ events[1].timeRemaining = 600

\* C29: a newly constructed timer, with or without a partial settings
\* object, is IDLE with WORK current, sessionsCompleted 0 and timeRemaining
\* = 60 x workDuration, every setting not supplied having its default.
C29_FreshTimer ==
  \A given \in BOOLEAN, p \in Partials :
    ConstructedWith(given, p, urlStart) =>
      /\ state = IDLE
      /\ sessionType = WORK
      /\ sessionsCompleted = 0
      /\ timeRemaining = SecondsPerMinute * settings.workDuration
      /\ DOMAIN settings = DOMAIN DEFAULT_SETTINGS
      /\ \A k \in DOMAIN DEFAULT_SETTINGS :
           settings[k] = IF given /\ k \in DOMAIN p
                         THEN p[k] ELSE DEFAULT_SETTINGS[k]
      /\ DEFAULT_SETTINGS =
           [ workDuration |-> 25, shortBreak |-> 5, longBreak |-> 15,
             sessionsUntilLongBreak |-> 4, autoStartBreaks |-> FALSE,
             soundEnabled |-> TRUE ]

\* C29 witness: the timer new PomodoroTimer() leaves, as the page makes it.
C29_Witness ==
  /\ ConstructedWith(FALSE, << >>, "none")
  /\ settings = DEFAULT_SETTINGS
  /\ timeRemaining = 1500

\* C26: the timer never stays COMPLETED: once the state is COMPLETED the
\* advancement eventually runs and leaves IDLE or RUNNING, and a completed
\* WORK session is followed by a break session, whatever the user does or
\* does not do meanwhile.
C26_NeverStaysCompleted ==
  /\ (state = COMPLETED) ~> (state \in {IDLE, RUNNING})
  /\ (state = COMPLETED /\ sessionType = WORK)
       ~> (sessionType \in {SHORT_BREAK, LONG_BREAK}
           /\ state \in {IDLE, RUNNING})

\* C26 witness: the break after the first completed work session is
\* current, its advancement having run.
C26_Witness ==
  /\ sessionType = SHORT_BREAK
  /\ sessionsCompleted = 1
  /\ state \in {IDLE, RUNNING}
  /\ pendingAdvance = 0
  /\ timeRemaining = 60

\* C27: the host persists exactly one record, of the completed session's
\* type and with the matching cue, in each step that takes a session into
\* COMPLETED, and none in any other step: no session is recorded twice and
\* none without having completed.
C27_OneRecordPerCompletion ==
  [][ LET persisted == bindGlobalEvents(events')
      IN  IF state # COMPLETED /\ state' = COMPLETED
          THEN /\ Len(persisted) = 1
               /\ persisted[1].record.sessionType = sessionType
               /\ persisted[1].cue = IF sessionType = WORK
                                     THEN "workComplete" ELSE "breakComplete"
          ELSE persisted = << >> ]_vars

\* C28: whenever the todo store is loaded, in the same tab (sessionStorage)
\* or in a new one (localStorage), no task created more than 24 hours
\* before is in the list getTodos() returns.
C28_TasksExpire ==
  \A sameTab \in BOOLEAN :
    LET loaded == getTodos(pageLoad(TodoSelf, now, sameTab))
    IN  \A i \in 1..Len(loaded) :
          now - loaded[i].createdAt <= CACHE_DURATION

\* C30: whatever localStorage holds at startup (nothing, an unparseable
\* blob, or an object whose durations are not positive), the settings the
\* timer holds after SettingsManager.loadSettings have every duration > 0.
C30_LoadedSettingsValid ==
  [][ Startup =>
        /\ settings.workDuration' > 0
        /\ settings.shortBreak' > 0
        /\ settings.longBreak' > 0 ]_vars

\* C31: at most one deferred advancement is pending at any time: a skip()
\* or a completion that arrives while the state already is COMPLETED queues
\* no second one, so the session type moves once per completed session.
C31_AtMostOnePendingAdvance == pendingAdvance <= 1

\* C32: with valid settings timeRemaining is never negative, after any
\* sequence of start, pause, resume, reset, skip, updateSettings, ticks and
\* advancements.
C32_TimeRemainingNotNegative == 0 <= timeRemaining

\* C33: whenever the state is IDLE, timeRemaining is 60 x the duration of
\* the current session type under the current settings, also after a tick
\* that fires while IDLE.
C33_IdleHoldsFullDuration ==
  state = IDLE =>
    timeRemaining = getCurrentSessionDuration(Self) * SecondsPerMinute

\* C34: whenever the state is COMPLETED, timeRemaining is 0 and the snapshot
\* that reported the completion carries progress 100, whether the session
\* completed by countdown or by skip().
C34_CompletedAtZero ==
  state = COMPLETED =>
    /\ timeRemaining = 0
    /\ \A i \in 1..Len(events) :
         events[i].state = COMPLETED =>
           events[i].progress.num = 100 * events[i].progress.den

\* The timer after n ticks and nothing else (n <= 0: as it is), computed by
\* halving n.  The test of `half` is always true: it makes TLC evaluate the
\* first half before it goes on to the second.
RECURSIVE C35_AfterTicks(_, _)
C35_AfterTicks(t, n) ==
  CASE n <= 0 -> t
    [] n = 1 -> tick(C13_Then(t))
    [] OTHER -> LET half == C35_AfterTicks(t, n \div 2)
                IN  IF half.state \in TIMER_STATES
                    THEN C35_AfterTicks(half, n - (n \div 2))
                    ELSE half

\* C35: a countdown always finishes: from any RUNNING state, ticks alone (no
\* pause, reset, skip or updateSettings) bring the state to COMPLETED, after
\* exactly timeRemaining of them (one tick fewer leaves it RUNNING).
C35_CountdownFinishes ==
  state = RUNNING =>
    /\ C35_AfterTicks(Self, timeRemaining).state = COMPLETED
    /\ C35_AfterTicks(Self, timeRemaining - 1).state = RUNNING

\* The ids a caller may pass: those handed out and one that never was.
C39_Ids == TodoIds \cup { MaxTodos + 1 }

\* C39: toggleTodo, updateTodo and deleteTodo called with an id that is not
\* in the list return null, null and false and leave the list and both
\* persisted copies as they are; with an id that is in the list they change
\* only that task (its completed flag, its text; deleteTodo removes it) and
\* keep the others in their order.
C39_EditsOnlyThatTask ==
  \A id \in C39_Ids, text \in TodoTexts :
    LET i == findIndex(TodoSelf, id)
        toggled == toggleTodo(TodoSelf, now, id)
        updated == updateTodo(TodoSelf, now, id, text)
        deleted == deleteTodo(TodoSelf, now, id)
    IN  IF \A j \in 1..Len(todos) : todos[j].id # id
        THEN /\ toggleTodoResult(TodoSelf, id) = null
             /\ updateTodoResult(TodoSelf, id, text) = null
             /\ deleteTodoResult(TodoSelf, id) = FALSE
             /\ toggled = TodoSelf
             /\ updated = TodoSelf
             /\ deleted = TodoSelf
        ELSE /\ todos[i].id = id
             /\ toggleTodoResult(TodoSelf, id) = toggled.todos[i]
             /\ updateTodoResult(TodoSelf, id, text) = updated.todos[i]
             /\ deleteTodoResult(TodoSelf, id) = TRUE
             /\ Len(toggled.todos) = Len(todos)
             /\ Len(updated.todos) = Len(todos)
             /\ Len(deleted.todos) = Len(todos) - 1
             /\ \A j \in 1..Len(todos) :
                  /\ j # i => (toggled.todos[j] = todos[j]
                                 /\ updated.todos[j] = todos[j])
                  /\ j < i => deleted.todos[j] = todos[j]
                  /\ j > i => deleted.todos[j - 1] = todos[j]
             /\ toggled.todos[i].completed # todos[i].completed
             /\ [ toggled.todos[i] EXCEPT !.completed = todos[i].completed ]
                  = todos[i]
             /\ [ updated.todos[i] EXCEPT !.text = todos[i].text ] = todos[i]

\* C39 witness: two tasks, the older one toggled to completed; deleting it
\* leaves the newer one, and an id never handed out finds nothing.
C39_Witness ==
  /\ Len(todos) = 2
  /\ todos[2].completed /\ ~todos[1].completed
  /\ sessionItem.present /\ sessionItem.todos = todos
  /\ deleteTodo(TodoSelf, now, todos[2].id).todos = << todos[1] >>
  /\ toggleTodoResult(TodoSelf, MaxTodos + 1) = null

\* The index in `list` of its k-th task that is not completed.
C40_KthActive(list, k) ==
  CHOOSE i \in 1..Len(list) :
    /\ ~list[i].completed
    /\ Cardinality({ j \in 1..i : ~list[j].completed }) = k

\* C40: clearCompleted() returns the number of completed tasks it removed
\* and leaves exactly the tasks that were active, in their order; called
\* again at once it removes nothing and returns 0, and getTodoCount() then
\* reports completed = 0 and total = active.
C40_ClearCompleted ==
  LET completed == { i \in 1..Len(todos) : todos[i].completed }
      cleared == clearCompleted(TodoSelf, now)
      again == clearCompleted(cleared, now)
      count == getTodoCount(cleared)
  IN  /\ clearCompletedResult(TodoSelf) = Cardinality(completed)
      /\ Len(cleared.todos) = Len(todos) - Cardinality(completed)
      /\ \A k \in 1..Len(cleared.todos) :
           cleared.todos[k] = todos[C40_KthActive(todos, k)]
      /\ cleared.sessionItem.todos = cleared.todos
      /\ clearCompletedResult(cleared) = 0
      /\ again.todos = cleared.todos
      /\ count.completed = 0
      /\ count.total = count.active
      /\ count.total = Len(cleared.todos)

\* C40 witness: a completed task ahead of an active one; clearing removes
\* the one and keeps the other.
C40_Witness ==
  /\ Len(todos) = 2
  /\ todos[1].completed /\ ~todos[2].completed
  /\ clearCompletedResult(TodoSelf) = 1
  /\ clearCompleted(TodoSelf, now).todos = << todos[2] >>
  /\ getTodoCount(TodoSelf) = [ total |-> 2, active |-> 1, completed |-> 1 ]

\* The fields of a session record, as FokusApp.recordSession makes it.
C36_RecordFields ==
  { "id", "date", "sessionType", "duration", "completed", "startTime",
    "endTime" }

\* C36: the list stored under 'fokus_session_history' holds only session
\* records that saveSessionRecord wrote, and every record saved is in it
\* until the size limit evicts it.
C36_HistoryHoldsSessionRecords ==
  /\ \A i \in 1..Len(historyItem) :
       /\ DOMAIN historyItem[i] = C36_RecordFields
       /\ \E k \in 1..Len(savedRecords) : historyItem[i] = savedRecords[k]
  /\ \A k \in 1..Len(savedRecords) :
       k > Len(savedRecords) - HistoryLimit =>
         \E i \in 1..Len(historyItem) : historyItem[i] = savedRecords[k]

\* C37: on the same day the day's count of Statistics never goes down: a
\* page load does not take it below the count it loaded from storage, and
\* each completed WORK session takes it up by exactly 1.
C37_DailyCountNeverDecreases ==
  [][ /\ dailyStats.date' = dailyStats.date =>
           dailyStats.sessionsCompleted' >= dailyStats.sessionsCompleted
      /\ PageLoad =>
           dailyStats.sessionsCompleted' >=
             loadTodaysStats(HostSelf, now).sessionsCompleted
      /\ (PageSkip /\ sessionType = WORK /\ dailyStats.date = getTodayString(now))
           => dailyStats.sessionsCompleted' = dailyStats.sessionsCompleted + 1
    ]_vars

\* C38: the session records in the stored history are at most 100, and
\* they are the most recently saved ones in the order of saving, the newest
\* last.
C38_LastRecordsInOrder ==
  /\ Len(historyItem) <= HistoryLimit
  /\ SelectSeq(historyItem, LAMBDA entry : "id" \in DOMAIN entry)
       = sliceLast(savedRecords, HistoryLimit)

====
